---- MODULE Spec2Model ----
(***************************************************************************)
(* Model of verkada-alerts (src/main.py): the identifier resolver          *)
(* get_cinglepointid, one evaluation pass of site_validation over the      *)
(* live site list, and the run-until-cutoff driver of __main__.            *)
(*                                                                         *)
(* Strings that the code takes apart (site names) are sequences of         *)
(* one-character strings.  Times of day are minutes since midnight.        *)
(* A Python call that can raise is an operator returning a record          *)
(* [exc |-> <exception name or "none">, val |-> <value>].                  *)
(***************************************************************************)
EXTENDS Integers, Sequences, FiniteSets

VARIABLES
    \* ---- get_cinglepointid, called on its own ----
    sitename,           \* the argument
    id_pc,              \* "call" before the call, "returned" / "raised" after
    id_result,          \* the returned cpid
    \* ---- one pass of site_validation ----
    verkadafile,        \* the live site list: sequence of [site_name, site_state]
    schedulefile,       \* the schedule table: sequence of rows
    validation_time,    \* the cycle's instant, as the minute of the UTC day
    validation_day,     \* the weekday name handed to the pass
    i,                  \* position of the for loop: sites 1..i-1 have been processed
    skipped_locations,  \* the skip list: sequence of [idx, site_name], idx being the
                        \* position of the record in verkadafile (names may repeat)
    sent,               \* send_alert_email calls so far: sequence of [idx, site_name]
    log,                \* log records so far: sequence of [kind, idx]
    lookups,            \* indices of the sites whose cpid was looked up in schedulefile
    evaluated,          \* idx -> [open_time, close_time, local] once line 159 is reached
    pc,                 \* "idle", "loop", "done" or "raised"
    \* ---- the driver of __main__ ----
    clock,              \* wall clock, minutes since midnight of the start day
    main_pc,            \* position of the main program
    next_run,           \* next_run of the scheduled job (-1: not yet scheduled)
    last_pass           \* the latest pass begun: [at, initial], at = -1 before the first

idVars   == <<sitename, id_pc, id_result>>
passVars == <<verkadafile, schedulefile, validation_time, validation_day, i, skipped_locations,
              sent, log, lookups, evaluated, pc>>
mainVars == <<clock, main_pc, next_run, last_pass>>
vars     == <<idVars, passVars, mainVars>>

(***************************************************************************)
(* Bounds of the model.                                                    *)
(***************************************************************************)
MaxLen   == 4      \* longest site name given to get_cinglepointid on its own
MaxSites == 2      \* longest live site list of a pass
MaxPass  == 2      \* longest duration of one pass, in minutes
StartWindow == 40  \* earliest process start, in minutes before the cutoff

(***************************************************************************)
(* Python string primitives used by get_cinglepointid.                     *)
(***************************************************************************)
Alphabet == {"~", " ", "-", "0", "1", "a"}

DigitValue == [c \in {"0", "1", "2", "3", "4", "5", "6", "7", "8", "9"} |->
                CASE c = "0" -> 0 [] c = "1" -> 1 [] c = "2" -> 2 [] c = "3" -> 3
                  [] c = "4" -> 4 [] c = "5" -> 5 [] c = "6" -> 6 [] c = "7" -> 7
                  [] c = "8" -> 8 [] c = "9" -> 9]

\* str.split(sep): one more piece than there are separators, empty pieces kept.
RECURSIVE split(_, _)
split(s, sep) ==
    IF s = <<>> THEN << <<>> >>
    ELSE LET rest == split(Tail(s), sep)
         IN  IF Head(s) = sep
             THEN << <<>> >> \o rest
             ELSE << <<Head(s)>> \o Head(rest) >> \o Tail(rest)

RECURSIVE lstrip(_)
lstrip(s) == IF s # <<>> /\ Head(s) = " " THEN lstrip(Tail(s)) ELSE s

RECURSIVE rstrip(_)
rstrip(s) ==
    IF s # <<>> /\ s[Len(s)] = " " THEN rstrip(SubSeq(s, 1, Len(s) - 1)) ELSE s

\* str.strip()
strip(s) == rstrip(lstrip(s))

RECURSIVE digits_value(_, _)
digits_value(s, acc) ==
    IF s = <<>> THEN acc
    ELSE digits_value(Tail(s), 10 * acc + DigitValue[Head(s)])

\* int(str): optional sign, then one or more decimal digits; ValueError otherwise.
int(s) ==
    LET signed == s # <<>> /\ Head(s) \in {"-", "+"}
        body   == IF signed THEN Tail(s) ELSE s
    IN  IF body = <<>> \/ \E k \in 1..Len(body) : body[k] \notin DOMAIN DigitValue
        THEN [exc |-> "ValueError", val |-> 0]
        ELSE [exc |-> "none",
              val |-> IF signed /\ Head(s) = "-"
                      THEN 0 - digits_value(body, 0)
                      ELSE digits_value(body, 0)]

\* list[1] on the pieces of a split: IndexError when there is no second piece.
second_segment(parts) ==
    IF Len(parts) < 2 THEN [exc |-> "IndexError", val |-> <<>>]
    ELSE [exc |-> "none", val |-> parts[2]]

\* The try body of get_cinglepointid: int(sitename.split('~')[1].strip())
cpid_try(name) ==
    LET seg == second_segment(split(name, "~"))
    IN  IF seg.exc # "none" THEN [exc |-> seg.exc, val |-> 0]
        ELSE int(strip(seg.val))

\* get_cinglepointid without its except ValueError clause.
get_cinglepointid_no_valueerror(name) ==
    LET r == cpid_try(name)
    IN  IF r.exc = "IndexError" THEN [exc |-> "none", val |-> -1] ELSE r

get_cinglepointid(name) ==
    LET r == cpid_try(name)
    IN  IF r.exc \in {"IndexError", "ValueError"}
        THEN [exc |-> "none", val |-> -1]
        ELSE r

(***************************************************************************)
(* Schedule cells and times of day.  A cell of the schedule table is a     *)
(* text (hour, minute and AM/PM fields as written), a native time value    *)
(* or a blank (NaN).  datetime.time values carry their minute of the day.  *)
(***************************************************************************)
MinutesPerHour == 60
MinutesPerDay  == 24 * MinutesPerHour

Str(h, m, p) == [kind |-> "str",  h |-> h, m |-> m, p |-> p,  val |-> 0]
Time(v)      == [kind |-> "time", h |-> 0, m |-> 0, p |-> "", val |-> v]
NaN          == [kind |-> "nan",  h |-> 0, m |-> 0, p |-> "", val |-> 0]
EmptyStr     == Str(0, 0, "")

\* datetime.strptime(cell, "%I:%M %p").time(): TypeError for a cell that is not
\* a str, ValueError for a text that is not a 12-hour time, else the time.
strptime(cell) ==
    IF cell.kind # "str" THEN [exc |-> "TypeError", val |-> EmptyStr]
    ELSE IF cell.h \notin 1..12 \/ cell.m \notin 0..59 \/ cell.p \notin {"AM", "PM"}
    THEN [exc |-> "ValueError", val |-> EmptyStr]
    ELSE [exc |-> "none",
          val |-> Time(((cell.h % 12) + (IF cell.p = "PM" THEN 12 ELSE 0))
                       * MinutesPerHour + cell.m)]

\* isinstance(x, time)
isinstance_time(x) == x.kind = "time"

market_to_timezone(marketname) ==
    CASE marketname = "AZPHX Market" -> "US/Arizona"
      [] marketname = "CABAY Market" -> "US/Pacific"
      [] marketname = "CAGLA Market" -> "US/Pacific"
      [] marketname = "CASAN Market" -> "US/Pacific"
      [] marketname = "CODEN Market" -> "US/Mountain"
      [] marketname = "ILCHI Market" -> "US/Central"
      [] marketname = "MIDET Market" -> "US/Eastern"
      [] marketname = "ININD Market" -> "US/Eastern"
      [] marketname = "NVLAS Market" -> "US/Pacific"
      [] marketname = "ORPTL Market" -> "US/Pacific"
      [] marketname = "WASEA Market" -> "US/Pacific"
      [] OTHER -> ""

Weekdays == {"Monday", "Tuesday", "Wednesday", "Thursday", "Friday", "Saturday", "Sunday"}

get_open_close_columns(validation_day_) ==
    CASE validation_day_ = "Monday"    -> <<4, 5>>
      [] validation_day_ = "Tuesday"   -> <<6, 7>>
      [] validation_day_ = "Wednesday" -> <<8, 9>>
      [] validation_day_ = "Thursday"  -> <<10, 11>>
      [] validation_day_ = "Friday"    -> <<12, 13>>
      [] validation_day_ = "Saturday"  -> <<14, 15>>
      [] validation_day_ = "Sunday"    -> <<16, 17>>

\* Hours west of UTC of the zones market_to_timezone names, on a date of
\* standard time.
HoursWest(zone) ==
    CASE zone = "US/Pacific"  -> 8
      [] zone = "US/Arizona"  -> 7
      [] zone = "US/Mountain" -> 7
      [] zone = "US/Central"  -> 6
      [] zone = "US/Eastern"  -> 5

\* validation_time.astimezone(ZoneInfo(site_timezone)).time()
site_local_time(vt, zone) ==
    (vt + MinutesPerDay - HoursWest(zone) * MinutesPerHour) % MinutesPerDay

(***************************************************************************)
(* Inputs of a pass.                                                       *)
(***************************************************************************)
\* Rows of 'Store Schedules.xlsx' with no end date.  Column 0 is the market
\* name, columns 4..17 are the open and close cells of Monday..Sunday.
Row(market, cpid, cells) ==
    [market |-> market, cpid |-> cpid, cells |-> [c \in 4..17 |-> cells[c - 3]]]

Nine  == Str(9, 0, "AM")
Five  == Str(5, 0, "PM")
Bad   == Str(25, 0, "AM")
Noon  == Time(12 * MinutesPerHour)
Eight == Time(20 * MinutesPerHour)

StoreSchedules ==
    << Row("CABAY Market", 1,
           << Nine, Five,    Nine, Bad,     Nine, Eight,   Nine, NaN,
              Bad, Five,     Bad, Eight,    Bad, NaN >>),
       Row("AZPHX Market", 2,
           << Noon, Five,    Noon, Bad,     Noon, Eight,   Noon, NaN,
              NaN, Five,     NaN, Bad,      NaN, Eight >>),
       Row("MIDET Market", 3,
           << NaN, NaN,      Bad, Str(9, 60, "PM"),
              Str(12, 0, "PM"), Str(12, 0, "PM"),
              Str(10, 0, "PM"), Str(6, 0, "AM"),
              Eight, Noon,
              Str(12, 30, "AM"), Str(11, 30, "PM"),
              Str(0, 0, "closed"), Str(0, 0, "closed") >>),
       Row("TXAUS Market", 4,
           << Nine, Five,    Nine, Five,    Nine, Five,    Nine, Five,
              Nine, Five,    Nine, Five,    Nine, Five >>),
       \* a second active row of site 1: the lookup takes the first match
       Row("TXAUS Market", 1,
           << Nine, Five,    Nine, Five,    Nine, Five,    Nine, Five,
              Nine, Five,    Nine, Five,    Nine, Five >>),
       \* a row whose identifier cell holds -1
       Row("CABAY Market", -1,
           << Nine, Five,    Nine, Five,    Nine, Five,    Nine, Five,
              Nine, Five,    Nine, Five,    Nine, Five >>) >>

ScheduleTables == {StoreSchedules}

\* Site names of the live list: sites 1..3 have a row in a known market, site 4
\* is in an unknown market, site 5 has no row, the last has no identifier.
SiteNames ==
    { <<"a", "~", "1">>, <<"~", "2", "~">>, <<"a", "~", " ", "3", " ">>,
      <<"a", "~", "4">>, <<"a", "~", "5">>, <<"a">> }

SiteStates == {"armed", "disarmed"}

SiteLists ==
    UNION { [1..n -> [site_name : SiteNames, site_state : SiteStates]] : n \in 0..MaxSites }

ValidationTimes == {h * MinutesPerHour : h \in 0..23}

\* schedulefile.iat[0, column] on a row
iat(row, column) == IF column = 0 THEN row.market ELSE row.cells[column]

\* schedulefile[schedulefile['Cinglepoint ID'] == cpid]
rows_of(table, cpid) == SelectSeq(table, LAMBDA r : r.cpid = cpid)

(***************************************************************************)
(* The body of the for loop of site_validation, for the site at i.         *)
(***************************************************************************)
site        == verkadafile[i]
cpid        == get_cinglepointid(site.site_name).val
site_state  == site.site_state
siterow     == rows_of(schedulefile, cpid)
market_name == iat(siterow[1], 0)
site_timezone == market_to_timezone(market_name)
open_column   == get_open_close_columns(validation_day)[1]
close_column  == get_open_close_columns(validation_day)[2]

\* Lines 142-155: [exc |-> "ValueError"] when the except ValueError branch is
\* taken, else the open_time and close_time that reach the comparison.
time_window(open_cell, close_cell) ==
    LET o == strptime(open_cell)
        c == strptime(close_cell)
        \* values of open_time, close_time when the exception is raised
        open_at_exc  == IF o.exc = "none" THEN o.val ELSE EmptyStr
        close_at_exc == EmptyStr
    IN  IF o.exc = "ValueError" \/ (o.exc = "none" /\ c.exc = "ValueError")
        THEN [exc |-> "ValueError", open_time |-> EmptyStr, close_time |-> EmptyStr]
        ELSE IF o.exc = "TypeError" \/ c.exc = "TypeError"
        THEN [exc |-> "none",
              open_time  |-> IF ~isinstance_time(open_at_exc) THEN open_cell
                             ELSE open_at_exc,
              close_time |-> IF ~isinstance_time(close_at_exc) THEN close_cell
                             ELSE close_at_exc]
        ELSE [exc |-> "none", open_time |-> o.val, close_time |-> c.val]

window == time_window(iat(siterow[1], open_column), iat(siterow[1], close_column))
local  == site_local_time(validation_time, site_timezone)

\* Line 159 with >= and <= in place of > and <.
alert_condition_nonstrict(local_, open_time, close_time, state) ==
    IF ~isinstance_time(open_time) THEN [exc |-> "TypeError", val |-> FALSE]
    ELSE IF ~(local_ >= open_time.val) THEN [exc |-> "none", val |-> FALSE]
    ELSE IF ~isinstance_time(close_time) THEN [exc |-> "TypeError", val |-> FALSE]
    ELSE IF ~(local_ <= close_time.val) THEN [exc |-> "none", val |-> FALSE]
    ELSE [exc |-> "none", val |-> state = "armed"]

\* Line 159 with a window that wraps past midnight when close is before open.
alert_condition_wraps(local_, open_time, close_time, state) ==
    IF ~isinstance_time(open_time) \/ ~isinstance_time(close_time)
    THEN [exc |-> "TypeError", val |-> FALSE]
    ELSE IF open_time.val < close_time.val
    THEN [exc |-> "none",
          val |-> local_ > open_time.val /\ local_ < close_time.val /\ state = "armed"]
    ELSE [exc |-> "none",
          val |-> (local_ > open_time.val \/ local_ < close_time.val) /\ state = "armed"]

\* Line 159: the comparisons are evaluated left to right and stop at the first
\* false one; comparing a time with a str or a float raises TypeError.
alert_condition(local_, open_time, close_time, state) ==
    IF ~isinstance_time(open_time) THEN [exc |-> "TypeError", val |-> FALSE]
    ELSE IF ~(local_ > open_time.val) THEN [exc |-> "none", val |-> FALSE]
    ELSE IF ~isinstance_time(close_time) THEN [exc |-> "TypeError", val |-> FALSE]
    ELSE IF ~(local_ < close_time.val) THEN [exc |-> "none", val |-> FALSE]
    ELSE [exc |-> "none", val |-> state = "armed"]

condition == alert_condition(local, window.open_time, window.close_time, site_state)

InLoop     == pc = "loop" /\ i <= Len(verkadafile)
\* Line 125 without the test of the sentinel.
HasId_unchecked == InLoop
HasId      == InLoop /\ cpid # -1
HasRow     == HasId /\ siterow # <<>>
HasZone    == HasRow /\ site_timezone # ""
HasWindow  == HasZone /\ window.exc = "none"

Logged(kind) == Append(log, [kind |-> kind, idx |-> i])
Skipped      == [idx |-> i, site_name |-> site.site_name]
NotEvaluated == [open_time |-> EmptyStr, close_time |-> EmptyStr, local |-> -1]

(***************************************************************************)
(* One pass of site_validation, one action per way through the loop body.  *)
(***************************************************************************)
IdIdle   == sitename = <<>> /\ id_pc = "idle" /\ id_result = 0
PassIdle == /\ verkadafile = <<>> /\ schedulefile = <<>>
            /\ validation_time = 0
            /\ validation_day = "Monday"
            /\ i = 1 /\ skipped_locations = <<>> /\ sent = <<>> /\ log = <<>>
            /\ lookups = {} /\ evaluated = <<>> /\ pc = "idle"
MainIdle == /\ clock = 0 /\ main_pc = "idle" /\ next_run = -1
            /\ last_pass = [at |-> -1, initial |-> FALSE]

\* Entry of site_validation (line 121) with its four arguments.
Init ==
    /\ verkadafile \in SiteLists
    /\ schedulefile \in ScheduleTables
    /\ validation_time \in ValidationTimes
    /\ validation_day \in Weekdays
    /\ i = 1
    /\ skipped_locations = <<>>
    /\ sent = <<>>
    /\ log = <<>>
    /\ lookups = {}
    /\ evaluated = [k \in 1..Len(verkadafile) |-> NotEvaluated]
    /\ pc = "loop"
    /\ IdIdle
    /\ MainIdle

Inputs == <<verkadafile, schedulefile, validation_time, validation_day>>

\* Lines 125-127: no identifier in the name.
SkipNoId ==
    /\ InLoop /\ cpid = -1
    /\ skipped_locations' = Append(skipped_locations, Skipped)
    /\ i' = i + 1
    /\ UNCHANGED <<Inputs, sent, log, lookups, evaluated, pc, idVars, mainVars>>

\* Lines 131-132: iat[0, 0] on an empty selection raises IndexError.
LookupRaises ==
    /\ HasId /\ siterow = <<>>
    /\ lookups' = lookups \cup {i}
    /\ pc' = "raised"
    /\ UNCHANGED <<Inputs, i, skipped_locations, sent, log, evaluated, idVars, mainVars>>

\* Lines 135-138: the market has no time zone.
SkipTimezone ==
    /\ HasRow /\ site_timezone = ""
    /\ lookups' = lookups \cup {i}
    /\ log' = Logged("skipped for invalid timezone")
    /\ skipped_locations' = Append(skipped_locations, Skipped)
    /\ i' = i + 1
    /\ UNCHANGED <<Inputs, sent, evaluated, pc, idVars, mainVars>>

\* Lines 147-150: strptime raised ValueError.
SkipOpenClose ==
    /\ HasZone /\ window.exc = "ValueError"
    /\ lookups' = lookups \cup {i}
    /\ log' = Logged("skipped for open/close time")
    /\ skipped_locations' = Append(skipped_locations, Skipped)
    /\ i' = i + 1
    /\ UNCHANGED <<Inputs, sent, evaluated, pc, idVars, mainVars>>

Evaluation == [open_time |-> window.open_time, close_time |-> window.close_time,
               local |-> local]

\* Line 159 raises TypeError: a time compared with a str or a float.
CompareRaises ==
    /\ HasWindow /\ condition.exc = "TypeError"
    /\ lookups' = lookups \cup {i}
    /\ evaluated' = [evaluated EXCEPT ![i] = Evaluation]
    /\ pc' = "raised"
    /\ UNCHANGED <<Inputs, i, skipped_locations, sent, log, idVars, mainVars>>

\* Lines 159-167 with the mail sent a second time.
Alert_twice ==
    /\ HasWindow /\ condition.exc = "none" /\ condition.val
    /\ lookups' = lookups \cup {i}
    /\ evaluated' = [evaluated EXCEPT ![i] = Evaluation]
    /\ log' = Append(Logged("Closed store alert sent"), [kind |-> "Alert sent", idx |-> i])
    /\ sent' = sent \o << [idx |-> i, site_name |-> site.site_name],
                          [idx |-> i, site_name |-> site.site_name] >>
    /\ i' = i + 1
    /\ UNCHANGED <<Inputs, skipped_locations, pc, idVars, mainVars>>

\* Lines 159-167, with the log record of send_alert_email (line 117).
Alert ==
    /\ HasWindow /\ condition.exc = "none" /\ condition.val
    /\ lookups' = lookups \cup {i}
    /\ evaluated' = [evaluated EXCEPT ![i] = Evaluation]
    /\ log' = Append(Logged("Closed store alert sent"), [kind |-> "Alert sent", idx |-> i])
    /\ sent' = Append(sent, [idx |-> i, site_name |-> site.site_name])
    /\ i' = i + 1
    /\ UNCHANGED <<Inputs, skipped_locations, pc, idVars, mainVars>>

\* Line 159 is false: next site.
NoAlert ==
    /\ HasWindow /\ condition.exc = "none" /\ ~condition.val
    /\ lookups' = lookups \cup {i}
    /\ evaluated' = [evaluated EXCEPT ![i] = Evaluation]
    /\ i' = i + 1
    /\ UNCHANGED <<Inputs, skipped_locations, sent, log, pc, idVars, mainVars>>

\* Line 169, after the loop.
Summary ==
    /\ pc = "loop" /\ i > Len(verkadafile)
    /\ log' = Append(log, [kind |-> "The following sites were skipped", idx |-> 0])
    /\ pc' = "done"
    /\ UNCHANGED <<Inputs, i, skipped_locations, sent, lookups, evaluated, idVars, mainVars>>

Next ==
    \/ SkipNoId
    \/ LookupRaises
    \/ SkipTimezone
    \/ SkipOpenClose
    \/ CompareRaises
    \/ Alert
    \/ NoAlert
    \/ Summary

Spec == Init /\ [][Next]_vars

(***************************************************************************)
(* get_cinglepointid on its own, over every name of the alphabet.          *)
(***************************************************************************)
Names == UNION { [1..n -> Alphabet] : n \in 0..MaxLen }

InitId ==
    /\ sitename \in Names
    /\ id_pc = "call"
    /\ id_result = 0
    /\ PassIdle
    /\ MainIdle

\* Lines 74-81.
Call ==
    /\ id_pc = "call"
    /\ id_result' = get_cinglepointid(sitename).val
    /\ id_pc' = IF get_cinglepointid(sitename).exc = "none" THEN "returned" ELSE "raised"
    /\ UNCHANGED <<sitename, passVars, mainVars>>

NextId == Call

SpecId == InitId /\ [][NextId]_vars

(***************************************************************************)
(* The driver of __main__: one pass at once, then the job every 15         *)
(* minutes while the time of day is before 22:00.  A pass lasts at most    *)
(* MaxPass minutes.                                                        *)
(***************************************************************************)
CutoffHour   == 22
EveryMinutes == 15

Cutoff  == CutoffHour * MinutesPerHour
Horizon == MinutesPerDay + EveryMinutes + StartWindow

\* datetime.now().time()
time_of_day(t) == t % MinutesPerDay

StartTimes == (Cutoff - StartWindow) .. (MinutesPerDay - 1)

InitMain ==
    /\ clock \in StartTimes
    /\ main_pc = "start"
    /\ next_run = -1
    /\ last_pass = [at |-> -1, initial |-> FALSE]
    /\ IdIdle
    /\ PassIdle

InPass == main_pc \in {"first_pass", "job"}

\* Line 195: the pass at program start, before any look at the clock.
FirstPassBegins ==
    /\ main_pc = "start"
    /\ main_pc' = "first_pass"
    /\ last_pass' = [at |-> clock, initial |-> TRUE]
    /\ UNCHANGED <<clock, next_run, idVars, passVars>>

\* validate returns to line 195.
FirstPassReturns ==
    /\ main_pc = "first_pass"
    /\ main_pc' = "schedule"
    /\ UNCHANGED <<clock, next_run, last_pass, idVars, passVars>>

\* Line 197: schedule.every(15).minutes.do(validate, ...)
ScheduleJob ==
    /\ main_pc = "schedule"
    /\ next_run' = clock + EveryMinutes
    /\ main_pc' = "while"
    /\ UNCHANGED <<clock, last_pass, idVars, passVars>>

\* Line 199, condition true.
WhileContinues ==
    /\ main_pc = "while"
    /\ time_of_day(clock) < Cutoff
    /\ main_pc' = "run_pending"
    /\ UNCHANGED <<clock, next_run, last_pass, idVars, passVars>>

\* Line 199, condition false: the program ends.
WhileExits ==
    /\ main_pc = "while"
    /\ ~(time_of_day(clock) < Cutoff)
    /\ main_pc' = "exited"
    /\ UNCHANGED <<clock, next_run, last_pass, idVars, passVars>>

\* Line 200: run_pending with the job not yet due.
RunPendingIdle ==
    /\ main_pc = "run_pending"
    /\ next_run > clock
    /\ main_pc' = "while"
    /\ UNCHANGED <<clock, next_run, last_pass, idVars, passVars>>

\* Line 200: run_pending runs the due job, which begins a pass.  The minute
\* may change between the while condition and the call of the job.
JobBegins ==
    /\ main_pc = "run_pending"
    /\ next_run <= clock
    /\ \E d \in {0, 1} : clock' = clock + d
    /\ main_pc' = "job"
    /\ last_pass' = [at |-> clock', initial |-> FALSE]
    /\ UNCHANGED <<next_run, idVars, passVars>>

\* The job returns: the scheduler sets its next run from the current time.
JobReturns ==
    /\ main_pc = "job"
    /\ next_run' = clock + EveryMinutes
    /\ main_pc' = "while"
    /\ UNCHANGED <<clock, last_pass, idVars, passVars>>

\* An exception of the pass (lines 132, 159) is caught nowhere: the program dies.
PassRaises ==
    /\ InPass
    /\ main_pc' = "crashed"
    /\ UNCHANGED <<clock, next_run, last_pass, idVars, passVars>>

\* A minute passes, during a pass or while the loop spins.
Tick ==
    /\ InPass \/ main_pc = "while"
    /\ clock < Horizon
    /\ InPass => clock - last_pass.at < MaxPass
    /\ clock' = clock + 1
    /\ UNCHANGED <<main_pc, next_run, last_pass, idVars, passVars>>

NextMain ==
    \/ FirstPassBegins
    \/ FirstPassReturns
    \/ ScheduleJob
    \/ WhileContinues
    \/ WhileExits
    \/ RunPendingIdle
    \/ JobBegins
    \/ JobReturns
    \/ PassRaises
    \/ Tick

SpecMain == InitMain /\ [][NextMain]_vars

(***************************************************************************)
(* Vocabulary of the properties.                                           *)
(***************************************************************************)
Sites       == 1..Len(verkadafile)
Alerts(idx) == {k \in 1..Len(sent) : sent[k].idx = idx}
Skips(idx)  == {k \in 1..Len(skipped_locations) : skipped_locations[k].idx = idx}

SkipKinds   == {"skipped for invalid timezone", "skipped for open/close time",
                "skipped for invalid identifier"}
SummaryKind == "The following sites were skipped"
SkipLogs(idx) == {k \in 1..Len(log) : log[k].idx = idx /\ log[k].kind \in SkipKinds}
Summaries     == {k \in 1..Len(log) : log[k].kind = SummaryKind}

\* the loop body has run for the site and left it behind
Processed(idx) == idx < i
\* the loop body raised at the site
RaisedAt(idx)  == pc = "raised" /\ i = idx

\* What the inputs say about a site, read off the arguments of the pass.
NameOf(idx)   == verkadafile[idx].site_name
StateOf(idx)  == verkadafile[idx].site_state
CpidOf(idx)   == get_cinglepointid(NameOf(idx)).val
RowsOf(idx)   == rows_of(schedulefile, CpidOf(idx))
OpenCell(idx)  == RowsOf(idx)[1].cells[get_open_close_columns(validation_day)[1]]
CloseCell(idx) == RowsOf(idx)[1].cells[get_open_close_columns(validation_day)[2]]
\* the site has an identifier, a schedule row and a time zone
ReachesParser(idx) ==
    /\ CpidOf(idx) # -1
    /\ RowsOf(idx) # <<>>
    /\ market_to_timezone(RowsOf(idx)[1].market) # ""

IsText(cell)      == cell.kind = "str"
IsTwelveHour(cell) == cell.h \in 1..12 /\ cell.m \in 0..59 /\ cell.p \in {"AM", "PM"}
IsMalformed(cell) == IsText(cell) /\ ~IsTwelveHour(cell)
IsBlank(cell)     == cell.kind \notin {"str", "time"}

\* the site reached line 159 with two time-of-day values
ReachedEvaluation(idx) ==
    /\ evaluated[idx].local # -1
    /\ evaluated[idx].open_time.kind = "time"
    /\ evaluated[idx].close_time.kind = "time"

(***************************************************************************)
(* Properties of a pass.                                                   *)
(***************************************************************************)
\* C1: a site that reaches evaluation with an open and a close time of day is
\* alerted exactly when its local time is strictly after the open time,
\* strictly before the close time, and its state is "armed".
C1_AlertExactlyInsideWindow ==
    \A idx \in Sites :
        ReachedEvaluation(idx) =>
            ( Alerts(idx) # {} <=>
                /\ evaluated[idx].local > evaluated[idx].open_time.val
                /\ evaluated[idx].local < evaluated[idx].close_time.val
                /\ StateOf(idx) = "armed" )

\* A finished pass with an alerted site and an armed site whose local time
\* equals its open time, which is not alerted.
C1_Witness ==
    /\ pc = "done"
    /\ \E a, b \in Sites :
        /\ ReachedEvaluation(a) /\ Alerts(a) # {}
        /\ ReachedEvaluation(b) /\ StateOf(b) = "armed"
        /\ evaluated[b].local = evaluated[b].open_time.val
        /\ Alerts(b) = {}

\* C2: no site aborts the pass: the loop never raises, and a pass that ends has
\* gone through every site and its last log record is the skipped-site summary.
C2_FailuresAreIsolated ==
    /\ pc # "raised"
    /\ pc = "done" =>
        /\ i = Len(verkadafile) + 1
        /\ log # <<>> /\ log[Len(log)].kind = SummaryKind

\* C3: a site whose open or close cell is a malformed text is in the skip list
\* once processed, is never alerted, and the pass does not raise at it.
C3_MalformedTextIsSkipped ==
    \A idx \in Sites :
        (ReachesParser(idx) /\ (IsMalformed(OpenCell(idx)) \/ IsMalformed(CloseCell(idx)))) =>
            /\ ~RaisedAt(idx)
            /\ Alerts(idx) = {}
            /\ Processed(idx) => Skips(idx) # {}

\* C4: a site with a blank open or close cell is never alerted and the pass
\* does not raise at it.
C4_BlankCellIsNoAlert ==
    \A idx \in Sites :
        (ReachesParser(idx) /\ (IsBlank(OpenCell(idx)) \/ IsBlank(CloseCell(idx)))) =>
            /\ ~RaisedAt(idx)
            /\ Alerts(idx) = {}

\* C5: a site whose identifier resolves to -1 is never alerted and never looked
\* up in the schedule table, and it is in the skip list once processed.
C5_SentinelOnlySkipped ==
    \A idx \in Sites :
        CpidOf(idx) = -1 =>
            /\ Alerts(idx) = {}
            /\ idx \notin lookups
            /\ Processed(idx) =>
                \E k \in 1..Len(skipped_locations) :
                    skipped_locations[k] = [idx |-> idx, site_name |-> NameOf(idx)]

\* A finished pass in which an armed site without identifier was skipped and
\* another site was alerted.
C5_Witness ==
    /\ pc = "done"
    /\ \E idx, other \in Sites :
        /\ CpidOf(idx) = -1 /\ StateOf(idx) = "armed" /\ Skips(idx) # {}
        /\ Alerts(other) # {}

\* C7: a site record has at most one outcome in a pass: it is in the skip list
\* once and neither evaluated nor alerted, or it is alerted at most once.
C7_AtMostOneOutcome ==
    \A idx \in Sites :
        /\ Cardinality(Skips(idx)) + Cardinality(Alerts(idx)) <= 1
        /\ Skips(idx) # {} => evaluated[idx] = NotEvaluated
        /\ Alerts(idx) # {} => evaluated[idx] # NotEvaluated

\* A finished pass over two records of the same name, both alerted once.
C7_Witness ==
    /\ pc = "done"
    /\ Len(verkadafile) >= 2
    /\ NameOf(1) = NameOf(2)
    /\ Cardinality(Alerts(1)) = 1 /\ Cardinality(Alerts(2)) = 1

\* C8: every entry of the skip list has exactly one per-site log record, and a
\* finished pass has exactly one summary record, the last of the log; no
\* summary is written before the pass is finished.
C8_OneLogRecordPerSkip ==
    /\ \A idx \in Sites : Cardinality(SkipLogs(idx)) = Cardinality(Skips(idx))
    /\ pc = "done" => Cardinality(Summaries) = 1 /\ log[Len(log)].kind = SummaryKind
    /\ pc # "done" => Summaries = {}

\* C10: a site evaluated with an open time that is not before its close time
\* is never alerted.
C10_EmptyWindowNeverAlerts ==
    \A idx \in Sites :
        (ReachedEvaluation(idx)
            /\ evaluated[idx].open_time.val >= evaluated[idx].close_time.val) =>
            Alerts(idx) = {}

\* A finished pass with an armed site whose window closes before it opens and
\* whose local time is after the open time.
C10_Witness ==
    /\ pc = "done"
    /\ \E idx \in Sites :
        /\ ReachedEvaluation(idx) /\ StateOf(idx) = "armed"
        /\ evaluated[idx].open_time.val > evaluated[idx].close_time.val
        /\ evaluated[idx].local > evaluated[idx].open_time.val

(***************************************************************************)
(* Property of get_cinglepointid.                                          *)
(***************************************************************************)
Min(S) == CHOOSE x \in S : \A y \in S : x <= y
Max(S) == CHOOSE x \in S : \A y \in S : x >= y

RECURSIVE Pow10(_)
Pow10(n) == IF n = 0 THEN 1 ELSE 10 * Pow10(n - 1)

RECURSIVE SumOver(_, _)
SumOver(S, f) ==
    IF S = {} THEN 0
    ELSE LET x == CHOOSE y \in S : TRUE IN f[x] + SumOver(S \ {x}, f)

\* The identifier a name carries: the text between its first "~" and the next
\* "~" or the end of the name, with the blanks around it dropped, read as a
\* signed decimal number; -1 when there is no "~" or that text is no number.
ExpectedCpid(name) ==
    LET tildes == {k \in 1..Len(name) : name[k] = "~"}
    IN  IF tildes = {} THEN -1
        ELSE LET first == Min(tildes)
                 later == {k \in tildes : k > first}
                 last  == IF later = {} THEN Len(name) ELSE Min(later) - 1
                 solid == {k \in (first + 1)..last : name[k] # " "}
             IN  IF solid = {} THEN -1
                 ELSE LET lo     == Min(solid)
                          hi     == Max(solid)
                          start  == IF name[lo] \in {"-", "+"} THEN lo + 1 ELSE lo
                          digits == start..hi
                          value  == SumOver(digits,
                                      [k \in digits |-> DigitValue[name[k]] * Pow10(hi - k)])
                      IN  IF digits = {} \/ \E k \in digits : name[k] \notin DOMAIN DigitValue
                          THEN -1
                          ELSE IF name[lo] = "-" THEN 0 - value ELSE value

\* C6: get_cinglepointid raises nothing, and returns the integer of the
\* name's "~"-delimited second segment, or -1 when there is no "~" or the
\* segment, blanks trimmed, is not an integer.
C6_IdentifierResolution ==
    /\ id_pc # "raised"
    /\ id_pc = "returned" => id_result = ExpectedCpid(sitename)

\* A call that returned the identifier of a name with a "~<int>~" segment
\* holding a two-digit number.
C6_Witness ==
    /\ id_pc = "returned"
    /\ sitename = <<"~", "1", "0", "~">>
    /\ id_result = 10

(***************************************************************************)
(* Property of the driver.                                                 *)
(***************************************************************************)
\* C9: no pass begins when the time of day is at or after the cutoff.
C9_NoPassAtOrAfterCutoff ==
    last_pass.at # -1 => time_of_day(last_pass.at) < Cutoff

====
